---- MODULE Spec2Model ----
(***************************************************************************)
(* Model of the Lab component (frontend/src/components/Lab.jsx, current    *)
(* version: src/unnamed/part_000 lines 338-821): camera + WebSocket        *)
(* pipeline, fallback poll, substance selection, teardown, and the derived *)
(* hint / reveal display.                                                  *)
(*                                                                         *)
(* React is modelled as it schedules the component: a state setter writes  *)
(* the state variable at once; Render takes the snapshot the event handler *)
(* closures and the display are built from; passive effects (the ref sync  *)
(* effects and the set_reaction sync effect) run in FlushEffects, after    *)
(* the render that changed their dependency and before the next render.    *)
(* The effects of the first render (MountEffects) are such a step too:     *)
(* Init is the component after its first commit, before they run. An       *)
(* update made in a discrete event (a click, a close event) is rendered    *)
(* before the event returns, together with its effects (SyncRender). An    *)
(* unmount is a render as well: effects still pending run first, the       *)
(* commit removes the component (Dispose), and the effect cleanups, being  *)
(* passive, run in a later task (RunCleanups); callbacks of timers, the    *)
(* socket, the camera and pending requests can run in between.             *)
(* Strings that hold non-ASCII characters in the source are written in     *)
(* ASCII here (H+ for H-superscript-plus, -- for the em dash).             *)
(***************************************************************************)
EXTENDS Integers, Sequences, FiniteSets, TLC

\* ---------------------------------------------------------------- bounds
MaxTicks  == 2    \* frame cadence ticks (setInterval(sendFrame, 66))
MaxPoll   == 2    \* fallback poll ticks (setInterval(..., 1000))
MaxPush   == 1    \* inbound reaction_complete events
MaxSelect == 2    \* substance bubble clicks
MaxUnload == 1    \* beforeunload events
MaxDrop   == 1    \* inbound messages that are not a completion report

\* ---------------------------------------------------------------- values
Null    == "null"              \* JS null for string-valued slots
NullObj == [null |-> TRUE]     \* JS null for object-valued slots

\* GET chemicals/ -> { chemicals: [{id, label, formula, type}] }: one substance per category.
Catalog ==
  { [id |-> "HCl",  label |-> "Hydrochloric Acid", formula |-> "HCl",  type |-> "acid"],
    [id |-> "NaOH", label |-> "Sodium Hydroxide",  formula |-> "NaOH", type |-> "base"],
    [id |-> "NaCl", label |-> "Table Salt",        formula |-> "NaCl", type |-> "neutral"] }

Ids           == {c.id : c \in Catalog}
ChemTypes     == {"acid", "base", "neutral"}
ReactionTypes == {"red_litmus", "blue_litmus"}

\* ---------------------------------------------------------------- pure functions

\* getReactionHint with the reacts flag inverted for acids on red litmus.
getReactionHint_AcidAnyLitmus(chemType, reactionType) ==
  IF chemType = Null \/ reactionType = Null THEN NullObj
  ELSE [reacts |-> (chemType = "acid" \/ (reactionType = "red_litmus" /\ chemType = "base")),
        icon |-> "flask", title |-> "litmus paper WILL change colour",
        detail |-> "Tilt your hand to pour.", color |-> "#f87171"]

\* getReactionHint without the neutral branch: returns null for a neutral substance.
getReactionHint_NoNeutral(chemType, reactionType) ==
  IF chemType = Null \/ reactionType = Null \/ chemType = "neutral" THEN NullObj
  ELSE [reacts |-> ((reactionType = "blue_litmus" /\ chemType = "acid") \/
                    (reactionType = "red_litmus" /\ chemType = "base")),
        icon |-> "flask", title |-> "litmus paper", detail |-> "Tilt your hand to pour.",
        color |-> "#a3a3a3"]

getReactionHint(chemType, reactionType) ==
  IF chemType = Null \/ reactionType = Null THEN NullObj
  ELSE
    LET paper     == IF reactionType = "red_litmus" THEN "Red" ELSE "Blue"
        willReact == (reactionType = "blue_litmus" /\ chemType = "acid") \/
                     (reactionType = "red_litmus"  /\ chemType = "base")
    IN IF willReact
       THEN LET turnsTo == IF reactionType = "blue_litmus" THEN "RED" ELSE "BLUE"
                reason  == IF chemType = "acid"
                           THEN "Acids donate H+ ions, causing blue litmus to turn red."
                           ELSE "Bases donate OH- ions, causing red litmus to turn blue."
            IN [reacts |-> TRUE,
                icon   |-> "flask",
                title  |-> paper \o " litmus paper WILL change colour",
                detail |-> "Tilt your hand to pour. The paper will turn " \o turnsTo
                           \o ". " \o reason,
                color  |-> IF chemType = "acid" THEN "#f87171" ELSE "#38bdf8"]
       ELSE LET detail ==
                  IF chemType = "neutral"
                  THEN paper \o " litmus paper does NOT change colour with a neutral substance. Neutral substances have no free H+ or OH- ions to trigger a reaction."
                  ELSE IF chemType = "acid"
                  THEN paper \o " litmus paper does NOT change colour in the presence of an acid. Red litmus only changes colour with a base (alkali). Try Blue litmus to test acids."
                  ELSE paper \o " litmus paper does NOT change colour in the presence of a base. Blue litmus only changes colour with an acid. Try Red litmus to test bases."
            IN [reacts |-> FALSE,
                icon   |-> "microscope",
                title  |-> paper \o " litmus paper will NOT change colour",
                detail |-> detail,
                color  |-> "#a3a3a3"]

\* buildRevealMessage that confirms an acid on either litmus paper.
buildRevealMessage_AcidAnyLitmus(chemical, reactionType) ==
  IF chemical = NullObj THEN NullObj
  ELSE IF chemical.type = "neutral"
  THEN [headline |-> "No Reaction Observed", body |-> "neutral", verdict |-> "NEUTRAL",
        color |-> "#a3a3a3"]
  ELSE IF chemical.type = "acid"
  THEN [headline |-> "Acid Detected!", body |-> "acid", verdict |-> "ACID CONFIRMED",
        color |-> "#f87171"]
  ELSE IF reactionType = "red_litmus"
  THEN [headline |-> "Base Detected!", body |-> "base", verdict |-> "BASE CONFIRMED",
        color |-> "#38bdf8"]
  ELSE [headline |-> "No Change -- Wrong Litmus", body |-> "base", verdict |-> "NO CHANGE",
        color |-> "#fbbf24"]

buildRevealMessage(chemical, reactionType) ==
  IF chemical = NullObj THEN NullObj
  ELSE
    LET label      == chemical.label
        formula    == chemical.formula
        type       == chemical.type
        paperColor == IF reactionType = "red_litmus" THEN "Red" ELSE "Blue"
    IN IF type = "neutral"
       THEN [headline |-> "No Reaction Observed",
             body     |-> "The " \o paperColor \o " Litmus paper did not change colour because "
                          \o label \o " (" \o formula \o ") is a neutral substance -- it has no acidic or basic properties to trigger a reaction.",
             verdict  |-> "NEUTRAL",
             color    |-> "#a3a3a3"]
       ELSE IF type = "acid" /\ reactionType = "blue_litmus"
       THEN [headline |-> "Acid Detected!",
             body     |-> "The Blue Litmus paper turned Red because " \o label \o " (" \o formula
                          \o ") is an acid. Acids donate protons (H+), which causes blue litmus to change colour.",
             verdict  |-> "ACID CONFIRMED",
             color    |-> "#f87171"]
       ELSE IF type = "base" /\ reactionType = "red_litmus"
       THEN [headline |-> "Base Detected!",
             body     |-> "The Red Litmus paper turned Blue because " \o label \o " (" \o formula
                          \o ") is a base. Bases accept protons (OH-), which causes red litmus to change colour.",
             verdict  |-> "BASE CONFIRMED",
             color    |-> "#38bdf8"]
       ELSE LET typeLabel == IF type = "acid" THEN "an acid" ELSE "a base"
            IN [headline |-> "No Change -- Wrong Litmus",
                body     |-> label \o " (" \o formula \o ") is " \o typeLabel
                             \o ", but this test used " \o paperColor
                             \o " Litmus. To observe a colour change, use "
                             \o (IF type = "acid" THEN "Blue" ELSE "Red")
                             \o " Litmus with this substance.",
                verdict  |-> "NO CHANGE",
                color    |-> "#fbbf24"]

\* JS `a || b` on nullable values: the left operand unless it is null.
OrElse(a, b, null) == IF a = null THEN b ELSE a


\* ---------------------------------------------------------------- state
VARIABLES
  \* useState
  chemicals, activeId, activeChem, loadingChem, revealData, reactionType, wsStatus,
  \* the last render: the values its closures and its display were built from
  view,
  \* useRef
  stopCalled, pollRef, wsRef, streamRef, wsReady, frameTimerRef, sendingRef,
  reactionTypeRef, activeChemRef,
  \* component and browser
  mounted, mountEffectsDue, cleanupsDue, navigated, pc, camera, wsState, wsCloseCalls,
  \* request channel
  reqChemicals, reqCurrent, selReqs, pollReqs, pollIssued, stopReq, stopPosts, beacons,
  \* transport and frame encoder
  outbound, framesSent, ticks, skips, toBlobJobs, bufJobs, pushes,
  \* history: selection requests issued, succeeded and failed; the number of commands
  \* ws.onopen replayed (skips, above: the ticks that found a frame in flight); the
  \* completion reports processed (push or poll) and the status requests that rejected
  selects, selOk, selFail, replayed, completions, pollFails,
  \* the teardown steps that took effect, in the order they ran; the inbound messages
  \* ws.onmessage received and dropped
  teardownLog, dropped

stateVars == <<chemicals, activeId, activeChem, loadingChem, revealData, reactionType, wsStatus>>
refVars   == <<stopCalled, pollRef, wsRef, streamRef, wsReady, frameTimerRef, sendingRef,
               reactionTypeRef, activeChemRef>>
envVars   == <<mounted, mountEffectsDue, cleanupsDue, navigated, pc, camera, wsState,
               wsCloseCalls>>
reqVars   == <<reqChemicals, reqCurrent, selReqs, pollReqs, pollIssued, stopReq, stopPosts, beacons>>
txVars    == <<outbound, framesSent, ticks, skips, toBlobJobs, bufJobs, pushes>>
histVars  == <<selects, selOk, selFail, replayed, completions, pollFails, teardownLog,
               dropped>>
vars      == <<stateVars, view, refVars, envVars, reqVars, txVars, histVars>>

\* ---------------------------------------------------------------- render

\* const reactionHint = (!revealData && activeChem && reactionType) ? getReactionHint(...) : null
ReactionHintOf(rd, ac, rt) ==
  IF rd = NullObj /\ ac # NullObj /\ rt # Null THEN getReactionHint(ac.type, rt) ELSE NullObj

\* What one render of the component captures (handler closures) and derives (reactionHint).
ViewOf(ch, lc, rd, ac, rt) ==
  [chemicals |-> ch, loadingChem |-> lc, revealData |-> rd, activeChem |-> ac,
   reactionType |-> rt, reactionHint |-> ReactionHintOf(rd, ac, rt)]

\* The JSX conditions: {reactionHint && !revealData && <hint panel>}, {revealData && <banner>}.
Panels(v) ==
  (IF v.reactionHint # NullObj /\ v.revealData = NullObj THEN {"hint"} ELSE {}) \cup
  (IF v.revealData # NullObj THEN {"reveal"} ELSE {})

\* The display state a render shows: the reveal banner, the hint panel, or neither.
DisplayState(v) ==
  IF "reveal" \in Panels(v) THEN "revealed"
  ELSE IF "hint" \in Panels(v) THEN "hint" ELSE "idle"

\* ---------------------------------------------------------------- transport helpers
SetReaction(rt) == [type |-> "set_reaction", arg |-> rt]
SetChemical(id) == [type |-> "set_chemical", arg |-> id]

\* wsSend: ws = wsRef.current; if (ws && ws.readyState === WebSocket.OPEN) ws.send(...)
wsSend(ob, payload) ==
  IF wsRef /\ wsState = "open" THEN Append(ob, payload) ELSE ob

\* The component without the set_reaction sync effect: only ws.onopen mirrors the mode.
EffOutbound_NoSync(ob, prev, v) == ob

\* The two effects on [reactionType] (ref sync, then the set_reaction sync) and the one on
\* [activeChem], run for the render v when its dependency differs from prev, the value of
\* their previous run.
EffOutbound(ob, prev, v) ==
  IF v.reactionType # prev /\ v.reactionType # Null
  THEN wsSend(ob, SetReaction(v.reactionType)) ELSE ob

EffectsPending ==
  mounted /\ (view.reactionType # reactionTypeRef \/ view.activeChem # activeChemRef)

\* ws.onopen: if (rt) ws.send(set_reaction); if (ac) ws.send(set_chemical)
OnOpenReplay(rt, ac) ==
  (IF rt # Null THEN <<SetReaction(rt)>> ELSE <<>>) \o
  (IF ac # NullObj THEN <<SetChemical(ac.id)>> ELSE <<>>)

\* sendFrame's guard without the in-flight flag.
SendFrameGuard_NoBusyCheck == wsReady /\ wsState = "open"

\* sendFrame: if (!wsReady.current || ws.readyState !== OPEN || sendingRef.current) return
SendFrameGuard == wsReady /\ wsState = "open" /\ ~sendingRef

\* stopPipeline that closes and stops but leaves wsRef / streamRef set.
StopPipeline_KeepRefs(s) ==
  [wsReady       |-> FALSE,
   frameTimerRef |-> FALSE,
   wsRef         |-> s.wsRef,
   wsState       |-> IF s.wsRef /\ s.wsState \in {"connecting", "open"} THEN "closing" ELSE s.wsState,
   wsCloseCalls  |-> IF s.wsRef THEN s.wsCloseCalls + 1 ELSE s.wsCloseCalls,
   streamRef     |-> s.streamRef,
   camera        |-> IF s.streamRef
                     THEN [live |-> FALSE, stops |-> s.camera.stops + 1]
                     ELSE s.camera,
   log           |-> s.log \o (IF s.frameTimerRef THEN <<"timer">> ELSE <<>>)
                          \o (IF s.wsRef THEN <<"ws">> ELSE <<>>)
                          \o (IF s.streamRef THEN <<"camera">> ELSE <<>>)]

\* stopPipeline on the fields it touches.
StopPipeline(s) ==
  [wsReady       |-> FALSE,
   frameTimerRef |-> FALSE,
   wsRef         |-> FALSE,
   wsState       |-> IF s.wsRef /\ s.wsState \in {"connecting", "open"} THEN "closing" ELSE s.wsState,
   wsCloseCalls  |-> IF s.wsRef THEN s.wsCloseCalls + 1 ELSE s.wsCloseCalls,
   streamRef     |-> FALSE,
   camera        |-> IF s.streamRef
                     THEN [live |-> FALSE, stops |-> s.camera.stops + 1]
                     ELSE s.camera,
   log           |-> s.log \o (IF s.frameTimerRef THEN <<"timer">> ELSE <<>>)
                          \o (IF s.wsRef THEN <<"ws">> ELSE <<>>)
                          \o (IF s.streamRef THEN <<"camera">> ELSE <<>>)]

PipelineNow ==
  [wsReady |-> wsReady, frameTimerRef |-> frameTimerRef, wsRef |-> wsRef, wsState |-> wsState,
   wsCloseCalls |-> wsCloseCalls, streamRef |-> streamRef, camera |-> camera,
   log |-> teardownLog]

\* A pipeline record with one more step logged, when the step had something to act on.
Logged(s, acted, step) == IF acted THEN [s EXCEPT !.log = Append(s.log, step)] ELSE s

\* Assign the fields of a pipeline record.
SetPipeline(s) ==
  /\ wsReady' = s.wsReady
  /\ frameTimerRef' = s.frameTimerRef
  /\ wsRef' = s.wsRef
  /\ wsState' = s.wsState
  /\ wsCloseCalls' = s.wsCloseCalls
  /\ streamRef' = s.streamRef
  /\ camera' = s.camera
  /\ teardownLog' = s.log

\* ---------------------------------------------------------------- initial state
\* The component after its first render is committed: the state and the refs hold their
\* initial values and the Back button is on screen; the passive effects of that render
\* (MountEffects) are scheduled and have not run yet.
Init ==
  /\ chemicals = {} /\ activeId = Null /\ activeChem = NullObj /\ loadingChem = Null
  /\ revealData = NullObj /\ reactionType = Null /\ wsStatus = "connecting"
  /\ view = ViewOf({}, Null, NullObj, NullObj, Null)
  /\ stopCalled = FALSE /\ pollRef = FALSE /\ wsRef = FALSE /\ streamRef = FALSE
  /\ wsReady = FALSE /\ frameTimerRef = FALSE /\ sendingRef = FALSE
  /\ reactionTypeRef = Null /\ activeChemRef = NullObj
  /\ mounted = TRUE /\ mountEffectsDue = TRUE /\ cleanupsDue = FALSE /\ navigated = FALSE
  /\ pc = "unstarted"
  /\ camera = [live |-> FALSE, stops |-> 0] /\ wsState = "none" /\ wsCloseCalls = 0
  /\ reqChemicals = FALSE /\ reqCurrent = FALSE /\ selReqs = <<>> /\ pollReqs = 0
  /\ pollIssued = 0 /\ stopReq = "none" /\ stopPosts = 0 /\ beacons = 0
  /\ outbound = <<>> /\ framesSent = 0 /\ ticks = 0 /\ skips = 0 /\ toBlobJobs = 0 /\ bufJobs = 0 /\ pushes = 0
  /\ selects = 0 /\ selOk = 0 /\ selFail = 0 /\ replayed = 0
  /\ completions = 0 /\ pollFails = 0 /\ teardownLog = <<>> /\ dropped = 0


\* ---------------------------------------------------------------- React scheduling

\* A re-render: pending passive effects of the previous render run first, then the
\* component function runs on the current state.
Render ==
  /\ mounted
  /\ view # ViewOf(chemicals, loadingChem, revealData, activeChem, reactionType)
  /\ outbound' = EffOutbound(outbound, reactionTypeRef, view)
  /\ reactionTypeRef' = view.reactionType
  /\ activeChemRef' = view.activeChem
  /\ view' = ViewOf(chemicals, loadingChem, revealData, activeChem, reactionType)
  /\ UNCHANGED <<stateVars, stopCalled, pollRef, wsRef, streamRef, wsReady, frameTimerRef,
                 sendingRef, envVars, reqVars, framesSent, ticks, skips, toBlobJobs, bufJobs, pushes, histVars>>

\* The passive effects of the last render:
\*   useEffect(() => { reactionTypeRef.current = reactionType; }, [reactionType])
\*   useEffect(() => { activeChemRef.current = activeChem; }, [activeChem])
\*   useEffect(() => { if (!reactionType) return; wsSend(set_reaction) }, [reactionType, wsSend])
FlushEffects ==
  /\ EffectsPending
  /\ outbound' = EffOutbound(outbound, reactionTypeRef, view)
  /\ reactionTypeRef' = view.reactionType
  /\ activeChemRef' = view.activeChem
  /\ UNCHANGED <<stateVars, view, stopCalled, pollRef, wsRef, streamRef, wsReady, frameTimerRef,
                 sendingRef, envVars, reqVars, framesSent, ticks, skips, toBlobJobs, bufJobs, pushes, histVars>>

\* The renders a React build can make for a state update from a discrete event (a click,
\* a close event): React 18 renders the updates of that event alone and leaves the updates
\* made outside discrete events to their own later render ("lanes"); React 19 renders
\* every pending update with them ("batched"). The build is not fixed by the source.
SyncModes == {"lanes", "batched"}

\* A close event that is not handled as a discrete one leaves its update to a later Render.
CloseModes == SyncModes \cup {"deferred"}

\* What the effects of two consecutive flushes send: those still pending from the last
\* render, then those of the render v.
SyncEffOutbound(ob, v) ==
  EffOutbound(EffOutbound(ob, reactionTypeRef, view), view.reactionType, v)

\* A render made before the event returns: the pending passive effects run first, the
\* component function runs and gives v, and the passive effects of v run at once (ob is
\* what they leave on the transport).
SyncRender(v, ob) ==
  /\ view' = v
  /\ reactionTypeRef' = v.reactionType
  /\ activeChemRef' = v.activeChem
  /\ outbound' = ob

\* ---------------------------------------------------------------- mount effects

\* The passive effects of the first render, in the order they are declared: the ref syncs
\* (541, 542: nothing to change), startPipeline() and both GETs (647-656), the set_reaction
\* sync (662-665: reactionType is null), setInterval for the poll (668-681) and
\* addEventListener('beforeunload') (718).
MountEffects ==
  /\ mounted
  /\ mountEffectsDue
  /\ mountEffectsDue' = FALSE
  /\ pc' = "getUserMedia"
  /\ reqChemicals' = TRUE
  /\ reqCurrent' = TRUE
  /\ pollRef' = TRUE
  /\ UNCHANGED <<stateVars, view, stopCalled, wsRef, streamRef, wsReady, frameTimerRef,
                 sendingRef, reactionTypeRef, activeChemRef, mounted, cleanupsDue, navigated,
                 camera, wsState, wsCloseCalls, selReqs, pollReqs, pollIssued, stopReq,
                 stopPosts, beacons, txVars, histVars>>

\* ---------------------------------------------------------------- mount effect requests

\* api.get('/reactions/chemicals/').then((r) => setChemicals(r.data.chemicals)).catch(() => {})
ChemicalsResp(ok) ==
  /\ reqChemicals
  /\ reqChemicals' = FALSE
  /\ chemicals' = IF ok /\ mounted THEN Catalog ELSE chemicals
  /\ UNCHANGED <<activeId, activeChem, loadingChem, revealData, reactionType, wsStatus, view,
                 refVars, envVars, reqCurrent, selReqs, pollReqs, pollIssued, stopReq, stopPosts,
                 beacons, txVars, histVars>>

\* api.get('/reactions/current/').then((r) => setReactionType(r.data.active_reaction)).catch(() => {})
\* rt = Null is a response with active_reaction: null; ok = FALSE is a failed request.
CurrentResp(ok, rt) ==
  /\ reqCurrent
  /\ reqCurrent' = FALSE
  /\ reactionType' = IF ok /\ mounted THEN rt ELSE reactionType
  /\ UNCHANGED <<chemicals, activeId, activeChem, loadingChem, revealData, wsStatus, view,
                 refVars, envVars, reqChemicals, selReqs, pollReqs, pollIssued, stopReq, stopPosts,
                 beacons, txVars, histVars>>

\* ---------------------------------------------------------------- startPipeline

\* await navigator.mediaDevices.getUserMedia(...); streamRef.current = stream;
\* video = videoRef.current; video.srcObject = stream (throws once the element is gone:
\* videoRef.current is null after unmount); catch: setWsStatus('error').
GetUserMediaDone(ok) ==
  /\ pc = "getUserMedia"
  /\ IF ok
     THEN /\ streamRef' = TRUE
          /\ camera' = [camera EXCEPT !.live = TRUE]
          /\ pc' = IF mounted THEN "play" ELSE "failed"
          /\ UNCHANGED wsStatus
     ELSE /\ pc' = "failed"
          /\ wsStatus' = IF mounted THEN "error" ELSE wsStatus
          /\ UNCHANGED <<streamRef, camera>>
  /\ UNCHANGED <<chemicals, activeId, activeChem, loadingChem, revealData, reactionType, view,
                 stopCalled, pollRef, wsRef, wsReady, frameTimerRef, sendingRef, reactionTypeRef,
                 activeChemRef, mounted, mountEffectsDue, cleanupsDue, navigated, wsState, wsCloseCalls, reqVars, txVars,
                 histVars>>

\* startPipeline without the abort: a rejected play() sets the error status and the
\* WebSocket is created all the same.
PlayDone_OpenOnFailure(ok) ==
  /\ pc = "play"
  /\ pc' = IF ok THEN "done" ELSE "failed"
  /\ wsRef' = TRUE
  /\ wsState' = "connecting"
  /\ wsStatus' = IF ~ok /\ mounted THEN "error" ELSE wsStatus
  /\ UNCHANGED <<chemicals, activeId, activeChem, loadingChem, revealData, reactionType, view,
                 stopCalled, pollRef, streamRef, wsReady, frameTimerRef, sendingRef,
                 reactionTypeRef, activeChemRef, mounted, mountEffectsDue, cleanupsDue, navigated, camera, wsCloseCalls,
                 reqVars, txVars, histVars>>

\* await video.play(); offscreen canvas; ws = new WebSocket(getWsUrl()); wsRef.current = ws;
\* handlers assigned. catch: setWsStatus('error').
PlayDone(ok) ==
  /\ pc = "play"
  /\ IF ok
     THEN /\ pc' = "done"
          /\ wsRef' = TRUE
          /\ wsState' = "connecting"
          /\ UNCHANGED wsStatus
     ELSE /\ pc' = "failed"
          /\ wsStatus' = IF mounted THEN "error" ELSE wsStatus
          /\ UNCHANGED <<wsRef, wsState>>
  /\ UNCHANGED <<chemicals, activeId, activeChem, loadingChem, revealData, reactionType, view,
                 stopCalled, pollRef, streamRef, wsReady, frameTimerRef, sendingRef,
                 reactionTypeRef, activeChemRef, mounted, mountEffectsDue, cleanupsDue, navigated, camera, wsCloseCalls,
                 reqVars, txVars, histVars>>

\* ---------------------------------------------------------------- WebSocket events

\* ws.onopen: wsReady, setWsStatus('live'), replay of the refs, setInterval(sendFrame, 66).
WsOpen ==
  /\ wsState = "connecting"
  /\ wsState' = "open"
  /\ wsReady' = TRUE
  /\ wsStatus' = IF mounted THEN "live" ELSE wsStatus
  /\ outbound' = outbound \o OnOpenReplay(reactionTypeRef, activeChemRef)
  /\ replayed' = Len(OnOpenReplay(reactionTypeRef, activeChemRef))
  /\ frameTimerRef' = TRUE
  /\ UNCHANGED <<chemicals, activeId, activeChem, loadingChem, revealData, reactionType, view,
                 stopCalled, pollRef, wsRef, streamRef, sendingRef, reactionTypeRef,
                 activeChemRef, mounted, mountEffectsDue, cleanupsDue, navigated, pc, camera, wsCloseCalls, reqVars, framesSent,
                 ticks, skips, toBlobJobs, bufJobs, pushes, selects, selOk, selFail,
                 completions, pollFails, teardownLog, dropped>>

\* The render for the setWsStatus of a close event on a mounted component. Handled as a
\* discrete event it is made before the event returns; the effects it runs find the socket
\* CLOSED, so wsSend drops what they would send.
CloseRender ==
  \E mode \in CloseModes :
    IF mounted /\ mode # "deferred"
    THEN SyncRender(IF mode = "batched"
                    THEN ViewOf(chemicals, loadingChem, revealData, activeChem, reactionType)
                    ELSE view,
                    outbound)
    ELSE UNCHANGED <<view, reactionTypeRef, activeChemRef, outbound>>

\* A close handler that reconnects: a new socket is opened and the status returns to connecting.
WsClose_Reconnect ==
  /\ wsState \in {"open", "closing"}
  /\ wsState' = "connecting"
  /\ wsReady' = FALSE
  /\ wsStatus' = IF mounted THEN "connecting" ELSE wsStatus
  /\ CloseRender
  /\ UNCHANGED <<chemicals, activeId, activeChem, loadingChem, revealData, reactionType,
                 stopCalled, pollRef, wsRef, streamRef, frameTimerRef, sendingRef, mounted,
                 mountEffectsDue, cleanupsDue, navigated, pc, camera, wsCloseCalls, reqVars,
                 framesSent, ticks, skips, toBlobJobs, bufJobs, pushes, histVars>>

\* The connection ends (failure, server close, or the close handshake after ws.close()):
\* ws.onerror = () => setWsStatus('error'); ws.onclose = () => { wsReady.current = false; setWsStatus('error') }
WsClose ==
  /\ wsState \in {"connecting", "open", "closing"}
  /\ wsState' = "closed"
  /\ wsReady' = FALSE
  /\ wsStatus' = IF mounted THEN "error" ELSE wsStatus
  /\ CloseRender
  /\ UNCHANGED <<chemicals, activeId, activeChem, loadingChem, revealData, reactionType,
                 stopCalled, pollRef, wsRef, streamRef, frameTimerRef, sendingRef, mounted,
                 mountEffectsDue, cleanupsDue, navigated, pc, camera, wsCloseCalls, reqVars,
                 framesSent, ticks, skips, toBlobJobs, bufJobs, pushes, histVars>>

\* ws.onmessage, text, msg.type === 'reaction_complete':
\*   clearInterval(pollRef.current); setRevealData(buildRevealMessage(
\*     msg.chemical || activeChemRef.current, msg.reaction_type || reactionTypeRef.current))
OnReactionComplete(chem, rt) ==
  /\ pollRef' = FALSE
  /\ revealData' = IF mounted
                   THEN buildRevealMessage(OrElse(chem, activeChemRef, NullObj),
                                           OrElse(rt, reactionTypeRef, Null))
                   ELSE revealData

\* An inbound reaction_complete text message; messages are delivered only while OPEN.
WsPush(chem, rt) ==
  /\ wsState = "open"
  /\ pushes < MaxPush
  /\ pushes' = pushes + 1
  /\ completions' = completions + 1
  /\ OnReactionComplete(chem, rt)
  /\ UNCHANGED <<chemicals, activeId, activeChem, loadingChem, reactionType, wsStatus, view,
                 stopCalled, wsRef, streamRef, wsReady, frameTimerRef, sendingRef,
                 reactionTypeRef, activeChemRef, envVars, reqVars, outbound, framesSent, ticks, skips,
                 toBlobJobs, bufJobs, selects, selOk, selFail, replayed, pollFails, teardownLog,
                 dropped>>

\* The inbound messages that are not a completion report, by what ws.onmessage does with
\* them: text that JSON.parse rejects, JSON text of another type, binary that
\* createImageBitmap cannot decode.
DropKinds == {"badText", "otherJson", "badBinary"}

\* A ws.onmessage that treats an unreadable message as a transport failure.
WsInbound_Fatal(kind) ==
  /\ wsState = "open"
  /\ dropped < MaxDrop
  /\ dropped' = dropped + 1
  /\ wsStatus' = IF mounted THEN "error" ELSE wsStatus
  /\ wsState' = "closing"
  /\ UNCHANGED <<chemicals, activeId, activeChem, loadingChem, revealData, reactionType, view,
                 refVars, mounted, mountEffectsDue, cleanupsDue, navigated, pc, camera, wsCloseCalls, reqVars, txVars,
                 selects, selOk, selFail, replayed, completions, pollFails, teardownLog>>

\* ws.onmessage on such a message. Text: try { msg = JSON.parse(evt.data); if (msg.type ===
\* 'reaction_complete') {...} } catch { /* not JSON */ } return. Binary:
\* createImageBitmap(...).then(draw) -- a rejected decode runs no callback.
WsInbound(kind) ==
  /\ wsState = "open"
  /\ dropped < MaxDrop
  /\ dropped' = dropped + 1
  /\ UNCHANGED <<stateVars, view, refVars, envVars, reqVars, txVars,
                 selects, selOk, selFail, replayed, completions, pollFails, teardownLog>>

\* ---------------------------------------------------------------- frame encoder

\* One tick of setInterval(sendFrame, 66): sendFrame returns at once unless the guard
\* holds; otherwise sendingRef.current = true, drawImage, off.toBlob(...).
FrameTick ==
  /\ frameTimerRef
  /\ ticks < MaxTicks
  /\ ticks' = ticks + 1
  /\ IF SendFrameGuard
     THEN sendingRef' = TRUE /\ toBlobJobs' = toBlobJobs + 1 /\ UNCHANGED skips
     ELSE /\ UNCHANGED <<sendingRef, toBlobJobs>>
          /\ skips' = IF wsReady /\ wsState = "open" /\ sendingRef THEN skips + 1 ELSE skips
  /\ UNCHANGED <<stateVars, view, stopCalled, pollRef, wsRef, streamRef, wsReady,
                 frameTimerRef, reactionTypeRef, activeChemRef, envVars, reqVars, outbound,
                 framesSent, bufJobs, pushes, histVars>>

\* A toBlob callback that returns on a null blob without releasing the in-flight flag.
ToBlobDone_KeepFlag(ok) ==
  /\ toBlobJobs > 0
  /\ toBlobJobs' = toBlobJobs - 1
  /\ bufJobs' = IF ok THEN bufJobs + 1 ELSE bufJobs
  /\ UNCHANGED <<stateVars, view, stopCalled, pollRef, wsRef, streamRef, wsReady,
                 frameTimerRef, sendingRef, reactionTypeRef, activeChemRef, envVars, reqVars,
                 outbound, framesSent, ticks, skips, pushes, histVars>>

\* The toBlob callback: if (!blob) { sendingRef.current = false; return; } blob.arrayBuffer()
ToBlobDone(ok) ==
  /\ toBlobJobs > 0
  /\ toBlobJobs' = toBlobJobs - 1
  /\ IF ok
     THEN bufJobs' = bufJobs + 1 /\ UNCHANGED sendingRef
     ELSE sendingRef' = FALSE /\ UNCHANGED bufJobs
  /\ UNCHANGED <<stateVars, view, stopCalled, pollRef, wsRef, streamRef, wsReady,
                 frameTimerRef, reactionTypeRef, activeChemRef, envVars, reqVars, outbound,
                 framesSent, ticks, skips, pushes, histVars>>

\* .then((buf) => { if (ws.readyState === WebSocket.OPEN) ws.send(buf); sendingRef.current = false; })
ArrayBufferDone ==
  /\ bufJobs > 0
  /\ bufJobs' = bufJobs - 1
  /\ framesSent' = IF wsState = "open" THEN framesSent + 1 ELSE framesSent
  /\ sendingRef' = FALSE
  /\ UNCHANGED <<stateVars, view, stopCalled, pollRef, wsRef, streamRef, wsReady,
                 frameTimerRef, reactionTypeRef, activeChemRef, envVars, reqVars, outbound,
                 ticks, skips, toBlobJobs, pushes, histVars>>

\* ---------------------------------------------------------------- fallback poll

\* The interval callback is created by an effect with no dependencies: the revealData it
\* reads is the one of the first render.
PollClosureRevealData == NullObj

\* One tick of the poll interval: if (revealData) { clearInterval(pollRef.current); return; }
\* then api.get('/reactions/status/') is issued.
PollTick ==
  /\ pollRef
  /\ pollIssued < MaxPoll
  /\ IF PollClosureRevealData # NullObj
     THEN pollRef' = FALSE /\ UNCHANGED <<pollReqs, pollIssued>>
     ELSE /\ pollReqs' = pollReqs + 1
          /\ pollIssued' = pollIssued + 1
          /\ UNCHANGED pollRef
  /\ UNCHANGED <<stateVars, view, stopCalled, wsRef, streamRef, wsReady, frameTimerRef,
                 sendingRef, reactionTypeRef, activeChemRef, envVars, reqChemicals, reqCurrent,
                 selReqs, stopReq, stopPosts, beacons, txVars, histVars>>

\* if (data.complete) { clearInterval(pollRef.current); setRevealData(buildRevealMessage(
\*   data.chemical || activeChemRef.current, data.reaction_type || reactionTypeRef.current)) }
OnPollComplete(chem, rt) ==
  /\ pollRef' = FALSE
  /\ revealData' = IF mounted
                   THEN buildRevealMessage(OrElse(chem, activeChemRef, NullObj),
                                           OrElse(rt, reactionTypeRef, Null))
                   ELSE revealData

\* A GET status/ response: { complete, chemical?, reaction_type? }.
PollResp(complete, chem, rt) ==
  /\ pollReqs > 0
  /\ pollReqs' = pollReqs - 1
  /\ IF complete
     THEN OnPollComplete(chem, rt) /\ completions' = completions + 1
     ELSE UNCHANGED <<pollRef, revealData, completions>>
  /\ UNCHANGED <<chemicals, activeId, activeChem, loadingChem, reactionType, wsStatus, view,
                 stopCalled, wsRef, streamRef, wsReady, frameTimerRef, sendingRef,
                 reactionTypeRef, activeChemRef, envVars, reqChemicals, reqCurrent, selReqs,
                 pollIssued, stopReq, stopPosts, beacons, txVars, selects, selOk, selFail,
                 replayed, pollFails, teardownLog, dropped>>

\* A rejected status request treated as fatal: the timer is cleared and the status set to error.
PollFail_Fatal ==
  /\ pollReqs > 0
  /\ pollReqs' = pollReqs - 1
  /\ pollFails' = pollFails + 1
  /\ pollRef' = FALSE
  /\ wsStatus' = IF mounted THEN "error" ELSE wsStatus
  /\ UNCHANGED <<chemicals, activeId, activeChem, loadingChem, revealData, reactionType, view,
                 stopCalled, wsRef, streamRef, wsReady, frameTimerRef, sendingRef,
                 reactionTypeRef, activeChemRef, envVars, reqChemicals, reqCurrent, selReqs,
                 pollIssued, stopReq, stopPosts, beacons, txVars, selects, selOk, selFail,
                 replayed, completions, teardownLog, dropped>>

\* A GET status/ request that rejects: catch { /* ignore */ }
PollFail ==
  /\ pollReqs > 0
  /\ pollReqs' = pollReqs - 1
  /\ pollFails' = pollFails + 1
  /\ UNCHANGED <<stateVars, view, refVars, envVars, reqChemicals, reqCurrent, selReqs,
                 pollIssued, stopReq, stopPosts, beacons, txVars, selects, selOk, selFail,
                 replayed, completions, teardownLog, dropped>>

\* ---------------------------------------------------------------- substance selection

\* <button disabled={!!loadingChem || !!revealData}> of the last render.
ButtonDisabled(v) == v.loadingChem # Null \/ v.revealData # NullObj

\* handleSelectChemical's early return: if (loadingChem || revealData) return;
SelectGuard(v) == v.loadingChem = Null /\ v.revealData = NullObj

\* handleSelectChemical without setLoadingChem(chem.id): the request is issued with the
\* pending flag left as it was.
SelectClick_NoPending(c) ==
  /\ mounted
  /\ c \in view.chemicals
  /\ ~ButtonDisabled(view)
  /\ selects < MaxSelect
  /\ selects' = selects + 1
  /\ IF SelectGuard(view)
     THEN /\ loadingChem' = loadingChem
          /\ revealData' = NullObj
          /\ selReqs' = Append(selReqs, c)
     ELSE UNCHANGED <<loadingChem, revealData, selReqs>>
  /\ \E mode \in SyncModes :
       LET v == IF mode = "batched"
                THEN ViewOf(chemicals, loadingChem', revealData', activeChem, reactionType)
                ELSE ViewOf(view.chemicals, loadingChem', revealData', view.activeChem,
                            view.reactionType)
       IN SyncRender(v, SyncEffOutbound(outbound, v))
  /\ UNCHANGED <<chemicals, activeId, activeChem, reactionType, wsStatus, stopCalled, pollRef,
                 wsRef, streamRef, wsReady, frameTimerRef, sendingRef, envVars, reqChemicals,
                 reqCurrent, pollReqs, pollIssued, stopReq, stopPosts, beacons, framesSent, ticks, skips,
                 toBlobJobs, bufJobs, pushes, selOk, selFail, replayed, completions, pollFails,
                 teardownLog, dropped>>

\* A click on the bubble of c: setLoadingChem(c.id); setRevealData(null); the POST is
\* issued. The click is a discrete event: React renders its two updates before the next
\* event, with or without the updates pending from earlier, and runs that render's effects.
SelectClick(c) ==
  /\ mounted
  /\ c \in view.chemicals
  /\ ~ButtonDisabled(view)
  /\ selects < MaxSelect
  /\ selects' = selects + 1
  /\ IF SelectGuard(view)
     THEN /\ loadingChem' = c.id
          /\ revealData' = NullObj
          /\ selReqs' = Append(selReqs, c)
     ELSE UNCHANGED <<loadingChem, revealData, selReqs>>
  /\ \E mode \in SyncModes :
       LET v == IF mode = "batched"
                THEN ViewOf(chemicals, loadingChem', revealData', activeChem, reactionType)
                ELSE ViewOf(view.chemicals, loadingChem', revealData', view.activeChem,
                            view.reactionType)
       IN SyncRender(v, SyncEffOutbound(outbound, v))
  /\ UNCHANGED <<chemicals, activeId, activeChem, reactionType, wsStatus, stopCalled, pollRef,
                 wsRef, streamRef, wsReady, frameTimerRef, sendingRef, envVars, reqChemicals,
                 reqCurrent, pollReqs, pollIssued, stopReq, stopPosts, beacons, framesSent, ticks, skips,
                 toBlobJobs, bufJobs, pushes, selOk, selFail, replayed, completions, pollFails,
                 teardownLog, dropped>>

RemoveAt(q, i) == SubSeq(q, 1, i - 1) \o SubSeq(q, i + 1, Len(q))

\* The failure path that has already switched the selection (setActiveId / setActiveChem
\* before the await).
SelectCatch_Optimistic(c) ==
  /\ activeId' = IF mounted THEN c.id ELSE activeId
  /\ activeChem' = IF mounted THEN c ELSE activeChem
  /\ loadingChem' = IF mounted THEN Null ELSE loadingChem
  /\ UNCHANGED outbound

\* catch (err) { console.error(...) } finally { setLoadingChem(null) }
SelectCatch(c) ==
  /\ loadingChem' = IF mounted THEN Null ELSE loadingChem
  /\ UNCHANGED <<activeId, activeChem, outbound>>

\* The POST set-chemical/ of request i resolves: setActiveId(chem.id); setActiveChem(chem);
\* wsSend({ type: 'set_chemical', chemical_id: chem.id }); finally setLoadingChem(null).
SelectOk(i) ==
  /\ i \in 1..Len(selReqs)
  /\ LET c == selReqs[i] IN
       /\ activeId' = IF mounted THEN c.id ELSE activeId
       /\ activeChem' = IF mounted THEN c ELSE activeChem
       /\ outbound' = wsSend(outbound, SetChemical(c.id))
       /\ loadingChem' = IF mounted THEN Null ELSE loadingChem
       /\ selOk' = selOk + 1
  /\ selReqs' = RemoveAt(selReqs, i)
  /\ UNCHANGED <<chemicals, revealData, reactionType, wsStatus, view, refVars, envVars,
                 reqChemicals, reqCurrent, pollReqs, pollIssued, stopReq, stopPosts, beacons,
                 framesSent, ticks, skips, toBlobJobs, bufJobs, pushes, selects, selFail, replayed,
                 completions, pollFails, teardownLog, dropped>>

\* The POST set-chemical/ of request i rejects.
SelectFail(i) ==
  /\ i \in 1..Len(selReqs)
  /\ SelectCatch(selReqs[i])
  /\ selReqs' = RemoveAt(selReqs, i)
  /\ selFail' = selFail + 1
  /\ UNCHANGED <<chemicals, revealData, reactionType, wsStatus, view, refVars, envVars,
                 reqChemicals, reqCurrent, pollReqs, pollIssued, stopReq, stopPosts, beacons,
                 framesSent, ticks, skips, toBlobJobs, bufJobs, pushes, selects, selOk, replayed,
                 completions, pollFails, teardownLog, dropped>>

\* ---------------------------------------------------------------- teardown

\* handleBack: if (stopCalled.current) return; stopCalled.current = true;
\* clearInterval(pollRef.current); stopPipeline(); await api.post('/reactions/stop/')
HandleBack ==
  /\ mounted
  /\ IF stopCalled
     THEN UNCHANGED <<stopCalled, pollRef, wsRef, streamRef, wsReady, frameTimerRef, camera,
                      wsState, wsCloseCalls, stopReq, stopPosts, teardownLog>>
     ELSE /\ stopCalled' = TRUE
          /\ pollRef' = FALSE
          /\ SetPipeline(Logged(StopPipeline(Logged(PipelineNow, pollRef, "poll")), TRUE, "post"))
          /\ stopPosts' = stopPosts + 1
          /\ stopReq' = "pending"
  /\ UNCHANGED <<stateVars, view, sendingRef, reactionTypeRef, activeChemRef, mounted,
                 mountEffectsDue, cleanupsDue, navigated, pc, reqChemicals, reqCurrent, selReqs, pollReqs, pollIssued,
                 beacons, txVars, selects, selOk, selFail, replayed, completions, pollFails, dropped>>

\* The effect cleanups of an unmount, run in the order the effects are declared:
\* () => stopPipeline(); () => clearInterval(pollRef.current); then the unload effect's:
\* removeEventListener; if (!stopCalled.current) { stopCalled.current = true;
\* clearInterval(pollRef.current); stopPipeline(); api.post('/reactions/stop/').catch(() => {}) }
Unmount ==
  /\ pollRef' = FALSE
  /\ stopCalled' = TRUE
  /\ LET s1 == Logged(StopPipeline(PipelineNow), pollRef, "poll")
     IN SetPipeline(IF stopCalled THEN s1 ELSE Logged(StopPipeline(s1), TRUE, "post"))
  /\ stopPosts' = IF stopCalled THEN stopPosts ELSE stopPosts + 1

\* handleBack with the navigation in the success path only: a rejected POST leaves the
\* view where it is.
BackDone_NavigateOnSuccess(ok) ==
  /\ stopReq = "pending"
  /\ stopReq' = IF ok THEN "done" ELSE "failed"
  /\ navigated' = (navigated \/ ok)
  /\ UNCHANGED <<stateVars, view, refVars, mounted, mountEffectsDue, cleanupsDue, pc, camera, wsState, wsCloseCalls,
                 reqChemicals, reqCurrent, selReqs, pollReqs, pollIssued, stopPosts, beacons,
                 txVars, histVars>>

\* handleBack's continuation: try { await api.post('/reactions/stop/') } finally {
\* navigate('/dashboard') }. The POST resolves (ok) or rejects; the finally block calls
\* navigate either way and the handler returns. The component is still mounted: the
\* router removes it in a later render (Dispose).
BackDone(ok) ==
  /\ stopReq = "pending"
  /\ stopReq' = IF ok THEN "done" ELSE "failed"
  /\ navigated' = TRUE
  /\ UNCHANGED <<stateVars, view, refVars, mounted, mountEffectsDue, cleanupsDue, pc, camera, wsState, wsCloseCalls,
                 reqChemicals, reqCurrent, selReqs, pollReqs, pollIssued, stopPosts, beacons,
                 txVars, histVars>>

\* The component is unmounted, by the router's render after handleBack's navigate or by
\* any other route change. The unmount is a render: React first runs the passive effects
\* that are still pending (those of the first render, if MountEffects has not run; the ref
\* syncs and the set_reaction sync, on the pipeline as it is then) and commits the tree without the component: its DOM nodes
\* and videoRef are gone and its setState calls are dropped. The effect cleanups are
\* passive too: the commit schedules them, and they run in a later task (RunCleanups).
\* Until then the timers, the socket, the camera, the pending requests and the
\* beforeunload listener are as the component left them, and their callbacks still run.
Dispose ==
  /\ mounted
  /\ mounted' = FALSE
  /\ cleanupsDue' = TRUE
  /\ mountEffectsDue' = FALSE
  /\ IF mountEffectsDue
     THEN /\ pc' = "getUserMedia"
          /\ reqChemicals' = TRUE
          /\ reqCurrent' = TRUE
          /\ pollRef' = TRUE
     ELSE UNCHANGED <<pc, reqChemicals, reqCurrent, pollRef>>
  /\ outbound' = EffOutbound(outbound, reactionTypeRef, view)
  /\ reactionTypeRef' = view.reactionType
  /\ activeChemRef' = view.activeChem
  /\ UNCHANGED <<stateVars, view, stopCalled, wsRef, streamRef, wsReady, frameTimerRef,
                 sendingRef, navigated, camera, wsState, wsCloseCalls, selReqs, pollReqs,
                 pollIssued, stopReq, stopPosts, beacons, framesSent, ticks, skips,
                 toBlobJobs, bufJobs, pushes, histVars>>

\* The task React scheduled at the unmount's commit: the three effect cleanups, in order.
RunCleanups ==
  /\ cleanupsDue
  /\ cleanupsDue' = FALSE
  /\ Unmount
  /\ UNCHANGED <<stateVars, view, sendingRef, reactionTypeRef, activeChemRef, mounted,
                 mountEffectsDue, navigated, pc, reqChemicals, reqCurrent, selReqs, pollReqs,
                 pollIssued, stopReq, beacons, txVars, selects, selOk, selFail, replayed, completions,
                 pollFails, dropped>>

\* beforeunload while the listener is registered, from the mount until the unload effect's
\* cleanup removes it: navigator.sendBeacon('/api/reactions/stop/', ...)
Unload ==
  /\ ~mountEffectsDue
  /\ mounted \/ cleanupsDue
  /\ beacons < MaxUnload
  /\ beacons' = beacons + 1
  /\ UNCHANGED <<stateVars, view, refVars, envVars, reqChemicals, reqCurrent, selReqs, pollReqs,
                 pollIssued, stopReq, stopPosts, txVars, histVars>>

\* ---------------------------------------------------------------- specification
\* The completion payloads the server is let to send: the snapshot present or omitted.
PayloadChems == {NullObj} \cup {c \in Catalog : c.id = "HCl"}
PayloadRts   == {Null, "blue_litmus"}

\* The operations by component.
React     == Render \/ FlushEffects
Requests  == \/ \E ok \in BOOLEAN : ChemicalsResp(ok)
             \/ \E ok \in BOOLEAN, rt \in PayloadRts \cup ReactionTypes : CurrentResp(ok, rt)
Startup   == \/ MountEffects
             \/ \E ok \in BOOLEAN : GetUserMediaDone(ok)
             \/ \E ok \in BOOLEAN : PlayDone(ok)
Transport == WsOpen \/ WsClose
Push      == \E c \in PayloadChems, rt \in PayloadRts : WsPush(c, rt)
Inbound   == \E kind \in DropKinds : WsInbound(kind)
Encoder   == \/ FrameTick
             \/ \E ok \in BOOLEAN : ToBlobDone(ok)
             \/ ArrayBufferDone
Poll      == \/ PollTick
             \/ \E complete \in BOOLEAN, c \in PayloadChems, rt \in PayloadRts :
                  PollResp(complete, c, rt)
             \/ PollFail
Selection == \/ \E c \in Catalog : SelectClick(c)
             \/ \E i \in 1..MaxSelect : SelectOk(i)
             \/ \E i \in 1..MaxSelect : SelectFail(i)
Teardown  == \/ HandleBack
             \/ \E ok \in BOOLEAN : BackDone(ok)
             \/ Dispose
             \/ RunCleanups
Exit      == Teardown \/ Unload

\* The whole component.
Next ==
  React \/ Requests \/ Startup \/ Transport \/ Push \/ Inbound \/ Encoder \/ Poll \/ Selection
    \/ Exit

Spec == Init /\ [][Next]_vars

\* Selection with a single substance on offer.
SelectionOne ==
  \/ \E c \in PayloadChems \ {NullObj} : SelectClick(c)
  \/ \E i \in 1..MaxSelect : SelectOk(i)
  \/ \E i \in 1..MaxSelect : SelectFail(i)

\* The specifications below are slices of Next: each keeps every operation that writes a
\* variable its claims read (directly or through another kept operation), and leaves out
\* operations whose variables are disjoint from those.

\* The session lifecycle: camera, transport, frame encoder and the exit paths.
NextLifecycle == Startup \/ Transport \/ Encoder \/ Exit

SpecLifecycle == Init /\ [][NextLifecycle]_vars

\* The lifecycle with the one progress assumption handleBack relies on: a POST stop/ that
\* was issued settles, by resolving or by rejecting.
SpecLifecycleFair ==
  Init /\ [][NextLifecycle]_vars /\ WF_vars(\E ok \in BOOLEAN : BackDone(ok))

\* The lifecycle with the progress the browser gives the frame encoder: a toBlob that was
\* started calls back (with a blob or with null), and the arrayBuffer() of a blob settles.
SpecEncoderFair ==
  /\ Init /\ [][NextLifecycle]_vars
  /\ WF_vars(\E ok \in BOOLEAN : ToBlobDone(ok))
  /\ WF_vars(ArrayBufferDone)

\* The setup commands on the transport: initial-state fetch, selection, ref sync effects,
\* transport lifecycle and teardown.
NextReplay == React \/ Requests \/ Startup \/ Transport \/ Selection \/ Teardown

SpecReplay == Init /\ [][NextReplay]_vars

\* The transition to live: the replay of the setup state and the start of the frame cadence.
NextOpen == React \/ Requests \/ Startup \/ Transport \/ SelectionOne \/ Encoder \/ Teardown

SpecOpen == Init /\ [][NextOpen]_vars

\* The reaction outcome and the display derived from it, while the view is mounted.
NextOutcome == React \/ Requests \/ Startup \/ Transport \/ Push \/ Poll \/ Selection

SpecOutcome == Init /\ [][NextOutcome]_vars

\* The catalogue fetch of the mount effect.
CatalogFetch == \E ok \in BOOLEAN : ChemicalsResp(ok)

\* The fallback poll against the push path and teardown. The indicator mode reaches the
\* outcome through the completion payloads; the GET current/ response, which writes only
\* reactionType, is left to the other specifications.
NextPoll ==
  React \/ CatalogFetch \/ Startup \/ Transport \/ Push \/ Poll \/ SelectionOne \/ Teardown

SpecPoll == Init /\ [][NextPoll]_vars

\* The inbound side of the transport: completion reports and the messages that are dropped,
\* with the poll and the initial-state fetch they must not disturb.
NextInbound == React \/ Requests \/ Startup \/ Transport \/ Push \/ Inbound \/ Poll

SpecInbound == Init /\ [][NextInbound]_vars

\* ---------------------------------------------------------------- claims

CountType(q, t) == Cardinality({k \in 1..Len(q) : q[k].type = t})

RenderedAll == view = ViewOf(chemicals, loadingChem, revealData, activeChem, reactionType)

\* C1: Reaction Outcome is single-assignment: once revealData holds a completion result,
\* no later event (push, poll response, repeated push) changes it.
C1_OutcomeSingleAssignment ==
  [][revealData # NullObj => revealData' = revealData]_vars

\* C2: whatever teardown triggers fire (Back, unload, disposal), in any order, exactly one
\* stop-notification (POST stop/ or its sendBeacon form) has been issued.
C2_ExactlyOneStop ==
  (stopCalled \/ beacons > 0) => stopPosts + beacons = 1

\* C3: at most one frame encode-and-send is in flight; a tick that finds one in flight
\* queues nothing, so the frames sent never exceed the ticks.
C3_OneFrameInFlight ==
  /\ toBlobJobs + bufJobs <= 1
  /\ framesSent + toBlobJobs + bufJobs + skips <= ticks

\* The second tick fired while the first frame was still being encoded, and was skipped.
C3_Witness ==
  /\ ticks = 2 /\ skips = 1 /\ framesSent = 0 /\ toBlobJobs + bufJobs = 1 /\ sendingRef

\* C4: a selection whose POST succeeded is on the transport as set_chemical exactly once:
\* never duplicated, and, once the transport is live and the component has settled, the
\* current selection has been sent.
C4_SelectionSentOnce ==
  /\ CountType(outbound, "set_chemical") <= selOk
  /\ (mounted /\ wsState = "open" /\ wsReady /\ activeChem # NullObj /\ selReqs = <<>>
        /\ RenderedAll /\ ~EffectsPending)
       => \E k \in 1..Len(outbound) : outbound[k] = SetChemical(activeChem.id)

\* C5: on connecting -> live nothing has been sent before; when the indicator mode and
\* the active selection are both known (reactionType and activeChem are set), the first
\* two text messages are set_reaction then set_chemical; the frame cadence timer starts in
\* that step, after the replay, and no frame precedes it.
C5_ReplayOrder ==
  [][(wsState = "connecting" /\ wsState' = "open") =>
       /\ outbound = <<>> /\ framesSent = 0 /\ ~frameTimerRef /\ toBlobJobs + bufJobs = 0
       /\ frameTimerRef' /\ framesSent' = 0
       /\ (reactionType # Null /\ activeChem # NullObj) =>
            outbound' = <<SetReaction(reactionType), SetChemical(activeChem.id)>>]_vars

\* C6: the indicator mode is mirrored exactly once: never more than one set_reaction, it
\* carries the fetched mode, and once the fetch has resolved non-null, its effects have
\* run and the transport is live, exactly one has been sent -- whichever came first.
C6_ReactionMirroredOnce ==
  /\ CountType(outbound, "set_reaction") <= 1
  /\ \A k \in 1..Len(outbound) :
       outbound[k].type = "set_reaction" => outbound[k].arg = reactionType
  /\ (mounted /\ wsState = "open" /\ reactionType # Null
        /\ view.reactionType = reactionType /\ reactionTypeRef = reactionType)
       => CountType(outbound, "set_reaction") = 1

\* The transport went live before the fetch resolved, and the command was still sent.
C6_Witness ==
  /\ mounted /\ wsState = "open" /\ reqCurrent = FALSE /\ reactionType = "red_litmus"
  /\ reactionTypeRef = reactionType
  /\ outbound = <<SetReaction("red_litmus")>>

\* C7: once the outcome is set, or teardown has begun (the latch is set or the component
\* is disposed), or the poll timer has been cleared, no GET status/ is issued any more;
\* and the timer, once the outcome or the latch is set or it has been cleared, is not
\* running afterwards.
C7_PollStopsPermanently ==
  [][/\ (revealData # NullObj \/ stopCalled \/ ~mounted \/ (~pollRef /\ ~mountEffectsDue))
          => pollIssued' = pollIssued
     /\ (revealData # NullObj \/ stopCalled \/ (~pollRef /\ ~mountEffectsDue))
          => ~pollRef']_vars

\* C8: a failed selection POST leaves activeId / activeChem as they were, sends no
\* set_chemical, and clears the pending flag.
C8_FailedSelectionKeepsPrevious ==
  [][selFail' # selFail =>
       /\ activeId' = activeId /\ activeChem' = activeChem
       /\ outbound' = outbound
       /\ (mounted => loadingChem' = Null)]_vars

C8_Witness ==
  /\ selFail = 1 /\ selOk = 1 /\ selReqs = <<>> /\ mounted
  /\ activeId = "NaOH" /\ activeChem.id = "NaOH" /\ loadingChem = Null
  /\ CountType(outbound, "set_chemical") = 1

\* C9: for every substance category and indicator mode the rendered hint is non-null, has
\* a non-empty explanation, and reacts iff (blue_litmus, acid) or (red_litmus, base).
C9_HintMatrix ==
  (view.activeChem # NullObj /\ view.reactionType # Null /\ view.revealData = NullObj) =>
    LET h == view.reactionHint IN
      /\ h # NullObj
      /\ view.activeChem.type \in ChemTypes /\ view.reactionType \in ReactionTypes
      /\ h = getReactionHint(view.activeChem.type, view.reactionType)
      /\ Len(h.detail) > 0 /\ Len(h.title) > 0
      /\ h.reacts <=> \/ (view.reactionType = "blue_litmus" /\ view.activeChem.type = "acid")
                      \/ (view.reactionType = "red_litmus" /\ view.activeChem.type = "base")

C9_Witness ==
  /\ view.activeChem # NullObj /\ view.activeChem.type = "base"
  /\ view.reactionType = "red_litmus"
  /\ view.reactionHint # NullObj /\ view.reactionHint.reacts

\* C10: every render shows exactly one display state: revealed iff the outcome is set, hint
\* iff no outcome and both selection and indicator mode are known, idle otherwise; the hint
\* panel and the reveal banner are never shown together.
C10_OneDisplayState ==
  LET P == Panels(view) IN
    /\ Cardinality(P) <= 1
    /\ ("reveal" \in P) <=> (view.revealData # NullObj)
    /\ ("hint" \in P) <=> (view.revealData = NullObj /\ view.activeChem # NullObj
                             /\ view.reactionType # Null)
    /\ (DisplayState(view) = "idle") <=> (P = {})

C10_Witness ==
  /\ Panels(view) = {"reveal"} /\ view.activeChem # NullObj /\ view.reactionType # Null
  /\ view.revealData.verdict = "ACID CONFIRMED"

\* C11: processing a completion report (a reaction_complete push or a poll response with
\* complete = true) while no outcome is set sets the outcome, whatever the payload carries
\* and whether or not a substance is selected.
C11_CompletionSetsOutcome ==
  [][(completions' # completions /\ mounted /\ revealData = NullObj)
       => revealData' # NullObj]_vars

\* C12: the revealed display state is terminal: a render that showed the reveal banner is
\* never followed, while the view is mounted, by one that shows the hint or neither; and
\* once the banner is rendered no set-chemical request is issued.
C12_RevealedIsTerminal ==
  [][(DisplayState(view) = "revealed" /\ mounted')
       => (DisplayState(view') = "revealed" /\ Len(selReqs') <= Len(selReqs))]_vars

\* C13: over any sequence of stopPipeline calls (handleBack, the mount-effect cleanup, the
\* disposal cleanup) the camera tracks are stopped at most once and the WebSocket's
\* close() is called at most once.
C13_ReleaseAtMostOnce ==
  camera.stops <= 1 /\ wsCloseCalls <= 1

\* Back on a live session, then the unmount cleanups: stopPipeline ran more than once.
C13_Witness ==
  /\ navigated /\ ~mounted /\ ~cleanupsDue /\ stopPosts = 1 /\ framesSent >= 1
  /\ camera.stops = 1 /\ wsCloseCalls = 1

\* C14: each teardown trigger (Back, page unload, component disposal) that fires while the
\* latch is unset sets it and performs the whole teardown -- poll timer cleared, transport
\* closed, camera released, one stop-notification -- and a trigger that fires with the
\* latch set sends nothing.
C14_TriggersFunnel ==
  [][(beacons' # beacons \/ stopPosts' # stopPosts \/ mounted' # mounted) =>
       IF stopCalled
       THEN stopPosts' = stopPosts /\ beacons' = beacons
       ELSE /\ stopCalled' /\ ~pollRef' /\ ~wsRef' /\ ~streamRef' /\ ~frameTimerRef'
            /\ stopPosts' + beacons' = stopPosts + beacons + 1]_vars

\* C15: Connection Status only moves connecting -> live -> error or connecting -> error: it
\* never returns to connecting and never leaves error; the one WebSocket of the session
\* only moves forward (none, connecting, open, closing, closed), so no second connection is
\* opened after an error or close event.
C15_StatusForwardOnly ==
  [][/\ wsStatus' # wsStatus =>
          \/ (wsStatus = "connecting" /\ wsStatus' \in {"live", "error"})
          \/ (wsStatus = "live" /\ wsStatus' = "error")
     /\ wsState' # wsState =>
          \/ (wsState = "none" /\ wsState' = "connecting")
          \/ (wsState = "connecting" /\ wsState' \in {"open", "closing", "closed"})
          \/ (wsState = "open" /\ wsState' \in {"closing", "closed"})
          \/ (wsState = "closing" /\ wsState' = "closed")]_vars

\* A live transport dropped while the view was mounted: the status ended in error.
C15_Witness ==
  /\ mounted /\ ~stopCalled /\ wsStatus = "error" /\ wsState = "closed" /\ framesSent >= 1

\* C16: a failed startup (getUserMedia or video.play() rejects) is terminal: the status of
\* a mounted view is error, no WebSocket is ever created, no frame timer runs, no frame is
\* captured or sent, and startPipeline is not run again.
C16_StartupFailureTerminal ==
  [][/\ pc = "failed" => pc' = "failed"
     /\ pc' = "failed" =>
          /\ mounted' => wsStatus' = "error"
          /\ wsState' = "none" /\ ~wsRef' /\ ~wsReady' /\ ~frameTimerRef'
          /\ ticks' = 0 /\ framesSent' = 0 /\ toBlobJobs' + bufJobs' = 0]_vars

\* The camera was acquired and video.play() rejected.
C16_Witness ==
  /\ pc = "failed" /\ streamRef /\ camera.live /\ mounted /\ wsStatus = "error"
  /\ wsState = "none"

\* C17: a rejected GET status/ changes no session state (outcome, selection, indicator
\* mode, connection status, pending flag) and leaves the poll timer as it was; while the
\* timer runs after a failure, its next tick can fire and issue a new request.
C17_PollFailureIgnored ==
  /\ [][pollFails' # pollFails =>
          /\ UNCHANGED <<stateVars, view, pollRef, stopCalled, pollIssued>>
          /\ pollReqs' = pollReqs - 1]_vars
  /\ []((pollFails > 0 /\ pollRef /\ pollIssued < MaxPoll) => ENABLED PollTick)

\* The only request issued so far was rejected; the timer is running and the next tick
\* is due.
C17_Witness ==
  /\ pollFails = 1 /\ pollIssued = 1 /\ pollReqs = 0 /\ completions = 0
  /\ pollRef /\ mounted /\ revealData = NullObj /\ ENABLED PollTick

\* C18: when handleBack issues POST stop/ the local teardown is already done (poll timer
\* cleared, WebSocket closed, camera handle released, frame timer cleared), and once the
\* POST is pending the navigation to the dashboard eventually happens, whether the POST
\* resolves or rejects.
C18_StopNeverBlocksLeaving ==
  /\ [][(stopReq # "pending" /\ stopReq' = "pending") =>
          /\ stopCalled' /\ ~pollRef' /\ ~wsRef' /\ ~streamRef' /\ ~frameTimerRef' /\ ~wsReady'
          /\ wsState' \notin {"connecting", "open"}]_vars
  /\ (stopReq = "pending") ~> navigated

\* The POST rejected and the view was left all the same.
C18_Witness ==
  stopReq = "failed" /\ navigated /\ ~mounted /\ ~cleanupsDue /\ stopPosts = 1

\* C19: once teardown has run (the latch is set, by Back or by disposal) no camera handle
\* is held, no WebSocket is connecting or open, and no frame timer is active -- also when
\* teardown ran while startPipeline was still awaiting the camera or the video.
C19_NothingAfterTeardown ==
  stopCalled =>
    /\ ~camera.live /\ ~streamRef
    /\ wsState \notin {"connecting", "open"} /\ ~wsRef
    /\ ~frameTimerRef

\* C20: when the transport is closed (by teardown or by an error/close event on a live
\* connection) the frame cadence timer is no longer active.
C20_CadenceCancelledOnClose ==
  wsState \in {"closing", "closed"} => ~frameTimerRef

\* The place of a teardown step in the documented sequence: poll timer, then transport
\* (frame cadence and WebSocket), then camera, then stop-notification.
Rank(step) ==
  IF step = "poll" THEN 1
  ELSE IF step \in {"timer", "ws"} THEN 2
  ELSE IF step = "camera" THEN 3 ELSE 4

\* C21: in the step that runs the teardown (the latch becomes set, by Back or by disposal)
\* the steps that take effect come in the order poll timer, transport close with frame
\* cadence, camera release, stop-notification.
C21_TeardownOrder ==
  [][(~stopCalled /\ stopCalled') =>
       LET d == SubSeq(teardownLog', Len(teardownLog) + 1, Len(teardownLog'))
       IN \A i \in 1..Len(d) : \A j \in 1..Len(d) : i < j => Rank(d[i]) <= Rank(d[j])]_vars

\* C22: a completion report processed by a mounted view builds the outcome from the
\* payload's chemical / reaction_type where present and otherwise from the Active
\* Selection and Indicator Mode current at that moment: the new outcome is
\* buildRevealMessage of (payload or current state) for one of the possible payloads.
C22_SnapshotFill ==
  [][(completions' # completions /\ mounted) =>
       \E c \in PayloadChems, rt \in PayloadRts :
         revealData' = buildRevealMessage(OrElse(c, activeChem, NullObj),
                                          OrElse(rt, reactionType, Null))]_vars

\* C23: an inbound message that is not a readable completion report (text that is not
\* JSON, JSON of another type, binary that fails to decode) changes nothing: Connection
\* Status, outcome, selection, indicator mode, the poll timer and the socket stay as they
\* were; and a completion report arriving afterwards on the open socket is still processed.
C23_MalformedDropped ==
  /\ [][dropped' # dropped =>
          UNCHANGED <<stateVars, view, refVars, envVars, reqVars, txVars>>]_vars
  /\ []((dropped > 0 /\ wsState = "open" /\ pushes < MaxPush) => ENABLED Push)

\* A message was dropped on a live session, and the completion report that followed set
\* the outcome.
C23_Witness ==
  /\ dropped = 1 /\ wsStatus = "live" /\ wsState = "open" /\ pollRef = FALSE
  /\ pushes = 1 /\ completions = 1 /\ revealData # NullObj

\* C24: the in-flight flag sendingRef is set exactly while one encode-and-send attempt is
\* running and every attempt releases it -- when the encoding yields no blob, when the
\* socket is no longer open at send time, and when the frame is sent; with the flag
\* released on a live transport the next tick starts a new attempt.
C24_FlagAlwaysReleased ==
  /\ [](sendingRef <=> (toBlobJobs + bufJobs = 1))
  /\ sendingRef ~> ~sendingRef
  /\ []((~sendingRef /\ frameTimerRef /\ wsReady /\ wsState = "open" /\ ticks < MaxTicks)
          => (SendFrameGuard /\ ENABLED FrameTick))

\* The first tick's encoding produced no blob: nothing was sent, the flag is released and
\* the guard of the next tick is open.
C24_Witness ==
  /\ ticks = 1 /\ skips = 0 /\ framesSent = 0 /\ toBlobJobs + bufJobs = 0
  /\ ~sendingRef /\ frameTimerRef /\ SendFrameGuard

\* C25: at most one POST set-chemical/ is in flight, and while the view is mounted the
\* pending flag loadingChem is set exactly while a request is outstanding and names the
\* substance requested.
C25_OneSelectionInFlight ==
  /\ Len(selReqs) <= 1
  /\ mounted => ((loadingChem # Null) <=> (selReqs # <<>>))
  /\ (mounted /\ selReqs # <<>>) => loadingChem = selReqs[1].id

\* A second request is in flight after the first one completed.
C25_Witness ==
  /\ mounted /\ selects = 2 /\ selOk = 1 /\ Len(selReqs) = 1
  /\ activeId = "HCl" /\ loadingChem = "NaOH"

\* The verdicts of buildRevealMessage that report a colour change.
ChangeVerdicts == {"ACID CONFIRMED", "BASE CONFIRMED"}

\* C26: the verdict agrees with the hint: for every substance category and indicator mode,
\* and for the pair of every rendered hint, buildRevealMessage reports a colour change
\* (ACID CONFIRMED or BASE CONFIRMED) iff getReactionHint has reacts = true.
C26_VerdictAgreesWithHint ==
  /\ \A c \in Catalog, rt \in ReactionTypes :
       (buildRevealMessage(c, rt).verdict \in ChangeVerdicts)
         <=> getReactionHint(c.type, rt).reacts
  /\ view.reactionHint # NullObj =>
       ((buildRevealMessage(view.activeChem, view.reactionType).verdict \in ChangeVerdicts)
          <=> view.reactionHint.reacts)

\* The hint for an acid on blue litmus is rendered, and the verdict for the pair is a change.
C26_Witness ==
  /\ view.reactionHint # NullObj /\ view.reactionHint.reacts
  /\ view.activeChem.type = "acid" /\ view.reactionType = "blue_litmus"
  /\ buildRevealMessage(view.activeChem, view.reactionType).verdict = "ACID CONFIRMED"

====
